---- MODULE Spec2Model ----
(***************************************************************************)
(* Background audio of igloo-ios: the JS AudioService (the Session         *)
(* Controller), the native BackgroundAudioModule (the Session Engine) and  *)
(* the callers of the two (IglooService, the health-check timer, the       *)
(* platform's notifications).                                              *)
(*                                                                         *)
(* Every JS call of a native AsyncFunction is asynchronous: the JS side    *)
(* issues the call, the native side runs it later on the main actor, and   *)
(* the JS continuation runs later still.  Each of these is one step of the *)
(* model, so that calls issued concurrently interleave exactly where the   *)
(* code awaits.                                                            *)
(***************************************************************************)
EXTENDS Integers, Sequences, FiniteSets, Bags

\* ---------------------------------------------------------------- bounds
\* Calls (play, stop, restart, setSoundscape, health-check ticks) that may be
\* in flight at the same time.
MaxCalls == 2
\* Engine starts (startPlayback runs) explored in one behaviour.
MaxEngineStarts == 2
\* Native events waiting for the JS listener.
MaxEvents == 2
\* Interval timers that lost their handle (startHealthCheck called again).
MaxLeakedTimers == 1
\* Health-check failures reported in one behaviour.
MaxHealthFailures == 2

\* ------------------------------------------------------- Track Registry
\* SOUNDSCAPE_REGISTRY: the ids, their filenames and availability.
SoundscapeIds == {"ocean-waves", "rain", "white-noise"}

SOUNDSCAPE_REGISTRY ==
  [id \in SoundscapeIds |->
     CASE id = "ocean-waves" -> [filename |-> "ocean-waves", available |-> TRUE]
       [] id = "rain"        -> [filename |-> "rain",        available |-> FALSE]
       [] id = "white-noise" -> [filename |-> "whitenoise",  available |-> FALSE]]

DEFAULT_SOUNDSCAPE_ID == "ocean-waves"

\* DEFAULT_VOLUME = 0.3 and the player's initial volume 0.3, in tenths.
DEFAULT_VOLUME == 3
PlayerInitVolume == 3

\* The range of a volume, 0 to 1, in tenths, and the clamp both setVolume
\* functions apply: max(0, min(1, volume)).
MinVolume == 0
MaxVolume == 10

Min(a, b) == IF a <= b THEN a ELSE b

Max(a, b) == IF a >= b THEN a ELSE b

ClampVolume(v) == Max(MinVolume, Min(MaxVolume, v))

\* The volumes a caller may ask for: below the range, inside it, above it.
VolumeInputs == {-5, 0, 7, 17}

getSoundscapeFilename(id) == SOUNDSCAPE_REGISTRY[id].filename

isSoundscapeAvailable(id) == SOUNDSCAPE_REGISTRY[id].available

\* The .m4a resources in the app bundle: the files of the available
\* soundscapes ("available: false, // Not yet bundled").
Bundle == {SOUNDSCAPE_REGISTRY[id].filename : id \in {i \in SoundscapeIds : SOUNDSCAPE_REGISTRY[i].available}}

\* ---------------------------------------------------------------- state
VARIABLES
  playing,             \* BackgroundAudioModule.playing
  audioPlayer,         \* BackgroundAudioModule.audioPlayer (NoPlayer = nil)
  currentSoundscape,   \* BackgroundAudioModule.currentSoundscape
  sessionState,        \* the Controller's cached state; AudioService.isPlaying is sessionState = "Playing"
  calls,               \* bag of the asynchronous calls in flight
  nativeEvents,        \* onPlaybackStateChanged events sent, not yet handled by JS
  healthCheckInterval, \* AudioService.healthCheckInterval (TRUE = a timer handle)
  leakedTimers,        \* interval timers still ticking whose handle was overwritten
  healthFailures,      \* times onHealthCheckFailed was invoked
  engineStarts,        \* times startPlayback ran
  volume,              \* useAudioStore.volume, in tenths
  soundscapeId         \* useAudioStore.soundscapeId

vars == <<playing, audioPlayer, currentSoundscape, sessionState, calls,
          nativeEvents, healthCheckInterval, leakedTimers, healthFailures,
          engineStarts, volume, soundscapeId>>

engine == <<playing, audioPlayer, currentSoundscape, engineStarts>>

timer == <<healthCheckInterval, leakedTimers, healthFailures>>

prefs == <<volume, soundscapeId>>

\* previous tells whether a player that this one replaced is still there
\* and sounding: "none" in every state, the replaced player being released
\* when its only reference is overwritten.
NoPlayer == [track |-> "", volume |-> 0, sounding |-> FALSE, live |-> FALSE,
             previous |-> "none"]

SessionStates == {"Stopped", "Starting", "Playing", "Interrupted", "Resuming",
                  "SwitchingTrack", "Failed"}

\* AudioService.isPlaying, the cached boolean.
isPlaying == sessionState = "Playing"

\* A call in flight: the operation, where it is suspended, its argument, the
\* value BackgroundAudioModule.isPlaying() returned to it and its result.
\* st0 is a history field, read by the properties only: the cached state
\* when play() reconciled, and when any other call was issued.
Frame(op, pc, arg, st0) ==
  [op |-> op, pc |-> pc, arg |-> arg, vol |-> 0, nativeIsPlaying |-> FALSE,
   res |-> "none", st0 |-> st0]

Frames == BagToSet(calls)

Replace(f, g) == (calls (-) SetToBag({f})) (+) SetToBag({g})

Remove(f) == calls (-) SetToBag({f})

Add(g) == calls (+) SetToBag({g})

\* The calls in flight that satisfy a condition, counted with multiplicity.
Count(S) == BagCardinality([f \in S |-> calls[f]])

Init ==
  /\ playing = FALSE
  /\ audioPlayer = NoPlayer
  /\ currentSoundscape = "ocean-waves"
  /\ sessionState = "Stopped"
  /\ calls = EmptyBag
  /\ nativeEvents = <<>>
  /\ healthCheckInterval = FALSE
  /\ leakedTimers = 0
  /\ healthFailures = 0
  /\ engineStarts = 0
  /\ volume = DEFAULT_VOLUME
  /\ soundscapeId = DEFAULT_SOUNDSCAPE_ID

\* ------------------------------------------------------- Session Engine
\* startPlayback(): the outcomes the platform can produce for the current
\* soundscape.
StartOutcomes ==
  IF currentSoundscape \in Bundle
    THEN {"ok", "ConfigError", "PlaybackStartFailed"}
    ELSE {"ConfigError", "AssetNotFound"}

\* Mutant: the player that is replaced goes on sounding.
startPlaybackKeepsPrevious(outcome) ==
  /\ engineStarts' = engineStarts + 1
  /\ UNCHANGED currentSoundscape
  /\ CASE outcome = "ok" ->
            /\ audioPlayer' = [track |-> currentSoundscape, volume |-> PlayerInitVolume,
                               sounding |-> TRUE, live |-> TRUE,
                               previous |-> IF audioPlayer.live /\ audioPlayer.sounding
                                              THEN "sounding" ELSE "none"]
            /\ playing' = TRUE
       [] outcome = "PlaybackStartFailed" ->
            /\ audioPlayer' = [track |-> currentSoundscape, volume |-> PlayerInitVolume,
                               sounding |-> FALSE, live |-> TRUE,
                               previous |-> IF audioPlayer.live /\ audioPlayer.sounding
                                              THEN "sounding" ELSE "none"]
            /\ UNCHANGED playing
       [] OTHER -> UNCHANGED <<audioPlayer, playing>>

\* startPlayback() with the given outcome.  A thrown error leaves what was
\* assigned before the throw: a failed play() has already replaced the player.
\* The player that audioPlayer = ... replaces has no other reference and is
\* released, which ends its sound.
startPlayback(outcome) ==
  /\ engineStarts' = engineStarts + 1
  /\ UNCHANGED currentSoundscape
  /\ CASE outcome = "ok" ->
            /\ audioPlayer' = [track |-> currentSoundscape, volume |-> PlayerInitVolume,
                               sounding |-> TRUE, live |-> TRUE, previous |-> "none"]
            /\ playing' = TRUE
       [] outcome = "PlaybackStartFailed" ->
            /\ audioPlayer' = [track |-> currentSoundscape, volume |-> PlayerInitVolume,
                               sounding |-> FALSE, live |-> TRUE, previous |-> "none"]
            /\ UNCHANGED playing
       [] OTHER -> UNCHANGED <<audioPlayer, playing>>

\* stopPlayback(): tears down the live handle; nothing to do without one.
stopPlayback ==
  /\ audioPlayer' = NoPlayer
  /\ playing' = FALSE
  /\ UNCHANGED <<currentSoundscape, engineStarts>>

\* AsyncFunction("isPlaying"): the native side answers a pending query.
NativeIsPlaying(f) ==
  /\ f.pc = "isPlaying"
  /\ calls' = Replace(f, [f EXCEPT !.pc = "isPlayingReturned", !.nativeIsPlaying = playing])
  /\ UNCHANGED <<engine, sessionState, nativeEvents, timer, prefs>>

\* AsyncFunction("play") called without a filename: startPlayback().
NativePlay(f) ==
  /\ f.pc = "play"
  /\ engineStarts < MaxEngineStarts
  /\ \E outcome \in StartOutcomes :
       /\ startPlayback(outcome)
       /\ calls' = Replace(f, [f EXCEPT !.pc = "playReturned", !.res = outcome])
  /\ UNCHANGED <<sessionState, nativeEvents, timer, prefs>>

\* Mutant: stopping with no live handle is reported as an error.
NativeStopThrowsWithoutHandle(f) ==
  /\ f.pc = "stop"
  /\ stopPlayback
  /\ calls' = Replace(f, [f EXCEPT !.pc = "stopReturned",
                                   !.res = IF audioPlayer.live THEN "ok" ELSE "StopFailed"])
  /\ UNCHANGED <<sessionState, nativeEvents, timer, prefs>>

\* AsyncFunction("stop"): stopPlayback(), which does not throw.
NativeStop(f) ==
  /\ f.pc = "stop"
  /\ stopPlayback
  /\ calls' = Replace(f, [f EXCEPT !.pc = "stopReturned", !.res = "ok"])
  /\ UNCHANGED <<sessionState, nativeEvents, timer, prefs>>

\* AsyncFunction("setSoundscape"), first hop to the main actor: the file
\* to play is replaced.
NativeSetSoundscape(f) ==
  /\ f.pc = "setSoundscape"
  /\ currentSoundscape' = f.arg
  /\ calls' = Replace(f, [f EXCEPT !.pc = "ssCheck"])
  /\ UNCHANGED <<playing, audioPlayer, engineStarts, sessionState, nativeEvents, timer, prefs>>

\* Mutant: a file that is already the one playing is not restarted.
NativeSetSoundscapeCheckSameFile(f) ==
  /\ f.pc = "ssCheck"
  /\ calls' = Replace(f, IF playing /\ audioPlayer.track # f.arg
                           THEN [f EXCEPT !.pc = "ssStop"]
                           ELSE [f EXCEPT !.pc = "setSoundscapeReturned", !.res = "ok"])
  /\ UNCHANGED <<engine, sessionState, nativeEvents, timer, prefs>>

\* AsyncFunction("setSoundscape"), second hop: restart only if playing.
NativeSetSoundscapeCheck(f) ==
  /\ f.pc = "ssCheck"
  /\ calls' = Replace(f, IF playing THEN [f EXCEPT !.pc = "ssStop"]
                                    ELSE [f EXCEPT !.pc = "setSoundscapeReturned", !.res = "ok"])
  /\ UNCHANGED <<engine, sessionState, nativeEvents, timer, prefs>>

\* AsyncFunction("setSoundscape"): _ = await self.stopPlayback().
NativeSetSoundscapeStop(f) ==
  /\ f.pc = "ssStop"
  /\ stopPlayback
  /\ calls' = Replace(f, [f EXCEPT !.pc = "ssStart"])
  /\ UNCHANGED <<sessionState, nativeEvents, timer, prefs>>

\* AsyncFunction("setSoundscape"): return try await self.startPlayback().
NativeSetSoundscapeStart(f) ==
  /\ f.pc = "ssStart"
  /\ engineStarts < MaxEngineStarts
  /\ \E outcome \in StartOutcomes :
       /\ startPlayback(outcome)
       /\ calls' = Replace(f, [f EXCEPT !.pc = "setSoundscapeReturned", !.res = outcome])
  /\ UNCHANGED <<sessionState, nativeEvents, timer, prefs>>

\* Mutant: without a player the call is rejected.
NativeSetVolumeNeedsPlayer(f) ==
  /\ f.pc = "setVolume"
  /\ audioPlayer' = IF audioPlayer.live
                      THEN [audioPlayer EXCEPT !.volume = ClampVolume(f.vol)]
                      ELSE audioPlayer
  /\ calls' = Replace(f, [f EXCEPT !.pc = "setVolumeReturned",
                                   !.res = IF audioPlayer.live THEN "ok" ELSE "error"])
  /\ UNCHANGED <<playing, currentSoundscape, engineStarts, sessionState, nativeEvents, timer, prefs>>

\* Mutant: the volume is added to the player's instead of replacing it.
NativeSetVolumeAdds(f) ==
  /\ f.pc = "setVolume"
  /\ audioPlayer' = IF audioPlayer.live
                      THEN [audioPlayer EXCEPT !.volume = ClampVolume(audioPlayer.volume + f.vol)]
                      ELSE audioPlayer
  /\ calls' = Replace(f, [f EXCEPT !.pc = "setVolumeReturned", !.res = "ok"])
  /\ UNCHANGED <<playing, currentSoundscape, engineStarts, sessionState, nativeEvents, timer, prefs>>

\* AsyncFunction("setVolume"): audioPlayer?.volume = the clamped volume;
\* nothing happens without a player, and true is returned either way.
NativeSetVolume(f) ==
  /\ f.pc = "setVolume"
  /\ audioPlayer' = IF audioPlayer.live
                      THEN [audioPlayer EXCEPT !.volume = ClampVolume(f.vol)]
                      ELSE audioPlayer
  /\ calls' = Replace(f, [f EXCEPT !.pc = "setVolumeReturned", !.res = "ok"])
  /\ UNCHANGED <<playing, currentSoundscape, engineStarts, sessionState, nativeEvents, timer, prefs>>

\* The platform's notifications, handled on the native side.
Emit(reason) == nativeEvents' = Append(nativeEvents, reason)

\* handleInterruption, .began: the system has silenced the player; JS is
\* told "interrupted".  The playing flag is left as it is.
InterruptionBegan ==
  /\ Len(nativeEvents) < MaxEvents
  /\ audioPlayer' = [audioPlayer EXCEPT !.sounding = FALSE]
  /\ Emit("interrupted")
  /\ UNCHANGED <<playing, currentSoundscape, engineStarts, sessionState, calls, timer, prefs>>

\* Mutant: the interruption's end starts playback anew instead of resuming
\* the player it has.
InterruptionEndedRestartsPlayback(resumed) ==
  /\ Len(nativeEvents) < MaxEvents
  /\ playing
  /\ engineStarts < MaxEngineStarts
  /\ IF resumed /\ audioPlayer.live
       THEN /\ startPlayback("ok")
            /\ Emit("resumed")
       ELSE /\ playing' = FALSE
            /\ Emit("resumeFailed")
            /\ UNCHANGED <<audioPlayer, currentSoundscape, engineStarts>>
  /\ UNCHANGED <<sessionState, calls, timer, prefs>>

\* Mutant: a failed resume clears the flag and tells JS nothing.
InterruptionEndedSilentFailure(resumed) ==
  /\ Len(nativeEvents) < MaxEvents
  /\ playing
  /\ IF resumed /\ audioPlayer.live
       THEN /\ audioPlayer' = [audioPlayer EXCEPT !.sounding = TRUE]
            /\ Emit("resumed")
            /\ UNCHANGED playing
       ELSE /\ playing' = FALSE
            /\ UNCHANGED <<audioPlayer, nativeEvents>>
  /\ UNCHANGED <<currentSoundscape, engineStarts, sessionState, calls, timer, prefs>>

\* handleInterruption, .ended: only if the flag says playing, the player it
\* has is resumed (audioPlayer?.play(), false without a player); a failed
\* resume clears the flag.
InterruptionEnded(resumed) ==
  /\ Len(nativeEvents) < MaxEvents
  /\ playing
  /\ IF resumed /\ audioPlayer.live
       THEN /\ audioPlayer' = [audioPlayer EXCEPT !.sounding = TRUE]
            /\ Emit("resumed")
            /\ UNCHANGED playing
       ELSE /\ playing' = FALSE
            /\ Emit("resumeFailed")
            /\ UNCHANGED audioPlayer
  /\ UNCHANGED <<currentSoundscape, engineStarts, sessionState, calls, timer, prefs>>

\* handleRouteChange: the route change may have stopped the player; if the
\* flag says playing and the player is not, it is told to play again.  The
\* result is not looked at and JS is told nothing.
RouteChange(stopped, resumed) ==
  /\ LET after == IF stopped THEN [audioPlayer EXCEPT !.sounding = FALSE] ELSE audioPlayer
     IN  audioPlayer' = IF playing /\ after.live /\ ~after.sounding
                          THEN [after EXCEPT !.sounding = resumed]
                          ELSE after
  /\ audioPlayer' # audioPlayer
  /\ UNCHANGED <<playing, currentSoundscape, engineStarts, sessionState, calls,
                 nativeEvents, timer, prefs>>

\* --------------------------------------------------- Session Controller
\* AudioService.play(): asks the native module first.
IssuePlay ==
  /\ BagCardinality(calls) < MaxCalls
  /\ calls' = Add(Frame("play", "isPlaying", "", ""))
  /\ UNCHANGED <<engine, sessionState, nativeEvents, timer, prefs>>

\* The history field of a play() that reconciles now.
Seen(f) == IF f.op = "play" THEN [f EXCEPT !.st0 = sessionState] ELSE f

\* Mutant: the cached flag is trusted when the native module says "not
\* playing" (play() returns without starting).
PlayReconcileTrustsCachedFlag(f) ==
  /\ f.op \in {"play", "restart"}
  /\ f.pc = "isPlayingReturned"
  /\ IF f.nativeIsPlaying \/ isPlaying
       THEN /\ sessionState' = "Playing"
            /\ calls' = Replace(f, [Seen(f) EXCEPT !.pc = "done", !.res = "noop"])
       ELSE /\ calls' = Replace(f, [Seen(f) EXCEPT !.pc = "play"])
            /\ UNCHANGED sessionState
  /\ UNCHANGED <<engine, nativeEvents, timer, prefs>>

\* Mutant: the native answer is ignored and playback is always started.
PlayReconcileAlwaysStarts(f) ==
  /\ f.op \in {"play", "restart"}
  /\ f.pc = "isPlayingReturned"
  /\ calls' = Replace(f, [Seen(f) EXCEPT !.pc = "play"])
  /\ UNCHANGED <<engine, sessionState, nativeEvents, timer, prefs>>

\* AudioService.play() after the native answer: already playing is a no-op
\* that syncs the cached flag; otherwise BackgroundAudioModule.play().
PlayReconcile(f) ==
  /\ f.op \in {"play", "restart"}
  /\ f.pc = "isPlayingReturned"
  /\ IF f.nativeIsPlaying
       THEN /\ sessionState' = "Playing"
            /\ calls' = Replace(f, [Seen(f) EXCEPT !.pc = "done", !.res = "noop"])
       ELSE /\ calls' = Replace(f, [Seen(f) EXCEPT !.pc = "play"])
            /\ UNCHANGED sessionState
  /\ UNCHANGED <<engine, nativeEvents, timer, prefs>>

\* AudioService.play() after BackgroundAudioModule.play() returned or threw.
PlayFinish(f) ==
  /\ f.op \in {"play", "restart"}
  /\ f.pc = "playReturned"
  /\ sessionState' = IF f.res = "ok" THEN "Playing" ELSE sessionState
  /\ calls' = Replace(f, [f EXCEPT !.pc = "done"])
  /\ UNCHANGED <<engine, nativeEvents, timer, prefs>>

\* AudioService.stop(): BackgroundAudioModule.stop(), then the cached flag.
IssueStop ==
  /\ BagCardinality(calls) < MaxCalls
  /\ calls' = Add(Frame("stop", "stop", "", sessionState))
  /\ UNCHANGED <<engine, sessionState, nativeEvents, timer, prefs>>

StopFinish(f) ==
  /\ f.op = "stop"
  /\ f.pc = "stopReturned"
  /\ sessionState' = "Stopped"
  /\ calls' = Replace(f, [f EXCEPT !.pc = "done"])
  /\ UNCHANGED <<engine, nativeEvents, timer, prefs>>

\* Mutant: the restart ignores keepAudio and stops the audio first.
IssueRestartStopsAudio ==
  /\ BagCardinality(calls) < MaxCalls
  /\ calls' = Add(Frame("restart", "stop", "", sessionState))
  /\ UNCHANGED <<engine, sessionState, nativeEvents, timer, prefs>>

\* IglooService.startSigner() while a node is running: stopSigner({keepAudio:
\* true}) skips audioService.stop(), then startup calls audioService.play().
IssueRestart ==
  /\ BagCardinality(calls) < MaxCalls
  /\ calls' = Add(Frame("restart", "isPlaying", "", sessionState))
  /\ UNCHANGED <<engine, sessionState, nativeEvents, timer, prefs>>

\* AudioService.setSoundscape(id) (switchTrack): an id that is not in the
\* registry fails at once; otherwise the native module is given the file,
\* and a switch while Playing is shown as SwitchingTrack.
IssueSwitchTrack(id) ==
  /\ BagCardinality(calls) < MaxCalls
  /\ IF id \in SoundscapeIds
       THEN /\ calls' = Add(Frame("switchTrack", "setSoundscape", getSoundscapeFilename(id), sessionState))
            /\ sessionState' = IF isPlaying THEN "SwitchingTrack" ELSE sessionState
       ELSE /\ calls' = Add([Frame("switchTrack", "done", "", sessionState) EXCEPT !.res = "AssetNotFound"])
            /\ UNCHANGED sessionState
  /\ UNCHANGED <<engine, nativeEvents, timer, prefs>>

\* AudioService.setSoundscape after the native call returned or threw.
SwitchTrackFinish(f) ==
  /\ f.op = "switchTrack"
  /\ f.pc = "setSoundscapeReturned"
  /\ sessionState' = IF sessionState # "SwitchingTrack" THEN sessionState
                     ELSE IF f.res = "ok" THEN "Playing" ELSE "Failed"
  /\ calls' = Replace(f, [f EXCEPT !.pc = "done"])
  /\ UNCHANGED <<engine, nativeEvents, timer, prefs>>

\* useAudioStore.setSoundscape(id): the id is stored as it is given; the
\* registry is not consulted.
setSoundscape(id) ==
  /\ soundscapeId' = id
  /\ UNCHANGED <<engine, sessionState, calls, nativeEvents, timer, volume>>

\* Mutant: the volume is stored as it is given.
setVolumeUnclamped(v) ==
  /\ volume' = v
  /\ UNCHANGED <<engine, sessionState, calls, nativeEvents, timer, soundscapeId>>

\* useAudioStore.setVolume(volume): the clamped volume is stored.
setVolume(v) ==
  /\ volume' = ClampVolume(v)
  /\ UNCHANGED <<engine, sessionState, calls, nativeEvents, timer, soundscapeId>>

\* AudioService.setVolume(volume): the native module is given the volume.
IssueSetVolume(v) ==
  /\ BagCardinality(calls) < MaxCalls
  /\ calls' = Add([Frame("setVolume", "setVolume", "", sessionState) EXCEPT !.vol = v])
  /\ UNCHANGED <<engine, sessionState, nativeEvents, timer, prefs>>

\* AudioService.setVolume after the native call returned.
SetVolumeFinish(f) ==
  /\ f.op = "setVolume"
  /\ f.pc = "setVolumeReturned"
  /\ calls' = Replace(f, [f EXCEPT !.pc = "done"])
  /\ UNCHANGED <<engine, sessionState, nativeEvents, timer, prefs>>

\* useSigner.start, its first call: audioService.setSoundscape with the
\* stored soundscape, as it is stored.
StartSetSoundscape == IssueSwitchTrack(soundscapeId)

\* useSigner.start, its last call: audioService.setVolume with the stored
\* volume, after the signer has started.
StartSetVolume == IssueSetVolume(volume)

\* Mutant: the listener toggles on "interrupted": a second one takes
\* Interrupted back to Playing.
OnPlaybackStateChangedToggles ==
  /\ nativeEvents # <<>>
  /\ nativeEvents' = Tail(nativeEvents)
  /\ sessionState' =
       CASE Head(nativeEvents) = "interrupted" /\ sessionState = "Playing" -> "Interrupted"
         [] Head(nativeEvents) = "interrupted" /\ sessionState = "Interrupted" -> "Playing"
         [] Head(nativeEvents) = "resumed" /\ sessionState = "Interrupted" -> "Resuming"
         [] Head(nativeEvents) = "resumeFailed" /\ sessionState = "Interrupted" -> "Failed"
         [] OTHER -> sessionState
  /\ UNCHANGED <<engine, calls, timer, prefs>>

\* The listener of onPlaybackStateChanged takes the oldest event.
OnPlaybackStateChanged ==
  /\ nativeEvents # <<>>
  /\ nativeEvents' = Tail(nativeEvents)
  /\ sessionState' =
       CASE Head(nativeEvents) = "interrupted" /\ sessionState = "Playing" -> "Interrupted"
         [] Head(nativeEvents) = "resumed" /\ sessionState = "Interrupted" -> "Resuming"
         [] Head(nativeEvents) = "resumeFailed" /\ sessionState = "Interrupted" -> "Failed"
         [] OTHER -> sessionState
  /\ UNCHANGED <<engine, calls, timer, prefs>>

\* The resume reported by the Engine is taken over: Resuming becomes Playing.
ResumeConfirmed ==
  /\ sessionState = "Resuming"
  /\ sessionState' = "Playing"
  /\ UNCHANGED <<engine, calls, nativeEvents, timer, prefs>>

\* AudioService.startHealthCheck: the new timer's handle overwrites the old
\* one, which is not cleared.
startHealthCheck ==
  /\ healthCheckInterval => leakedTimers < MaxLeakedTimers
  /\ leakedTimers' = IF healthCheckInterval THEN leakedTimers + 1 ELSE leakedTimers
  /\ healthCheckInterval' = TRUE
  /\ UNCHANGED <<engine, sessionState, calls, nativeEvents, healthFailures, prefs>>

\* AudioService.stopHealthCheck: clears the timer whose handle is held.
stopHealthCheck ==
  /\ healthCheckInterval
  /\ healthCheckInterval' = FALSE
  /\ UNCHANGED <<engine, sessionState, calls, nativeEvents, leakedTimers, healthFailures, prefs>>

TicksInFlight == Count({f \in Frames : f.op = "tick"})

\* A timer fires: if the cached flag says playing, the native module is asked.
HealthCheckTick ==
  /\ healthCheckInterval \/ leakedTimers > 0
  /\ isPlaying
  /\ BagCardinality(calls) < MaxCalls
  /\ healthFailures + TicksInFlight < MaxHealthFailures
  /\ calls' = Add(Frame("tick", "isPlaying", "", ""))
  /\ UNCHANGED <<engine, sessionState, nativeEvents, timer, prefs>>

\* Mutant: a failed health check starts the playback again by itself.
HealthCheckResumeRetries(f) ==
  /\ f.op = "tick"
  /\ f.pc = "isPlayingReturned"
  /\ IF ~f.nativeIsPlaying
       THEN /\ calls' = Replace(f, Frame("play", "play", "", ""))
            /\ sessionState' = "Failed"
            /\ healthFailures' = healthFailures + 1
       ELSE /\ calls' = Remove(f)
            /\ UNCHANGED <<sessionState, healthFailures>>
  /\ UNCHANGED <<engine, nativeEvents, healthCheckInterval, leakedTimers, prefs>>

\* The tick after the native answer: not playing is a failed health check.
HealthCheckResume(f) ==
  /\ f.op = "tick"
  /\ f.pc = "isPlayingReturned"
  /\ calls' = Remove(f)
  /\ IF ~f.nativeIsPlaying
       THEN /\ sessionState' = "Failed"
            /\ healthFailures' = healthFailures + 1
       ELSE UNCHANGED <<sessionState, healthFailures>>
  /\ UNCHANGED <<engine, nativeEvents, healthCheckInterval, leakedTimers, prefs>>

\* The caller's continuation takes the result of a finished call.
Return(f) ==
  /\ f.pc = "done"
  /\ calls' = Remove(f)
  /\ UNCHANGED <<engine, sessionState, nativeEvents, timer, prefs>>

\* --------------------------------------------------------- specifications
\* The ids a caller may pass to setSoundscape: the registry's and one more.
RequestedIds == SoundscapeIds \cup {"unknown"}

NativeStep ==
  \/ \E f \in Frames : NativeIsPlaying(f)
  \/ \E f \in Frames : NativePlay(f)
  \/ \E f \in Frames : NativeStop(f)

PlayStopStep ==
  \/ IssuePlay
  \/ IssueStop
  \/ \E f \in Frames : PlayReconcile(f)
  \/ \E f \in Frames : PlayFinish(f)
  \/ \E f \in Frames : StopFinish(f)
  \/ \E f \in Frames : Return(f)

SwitchTrackStep ==
  \/ \E id \in RequestedIds : IssueSwitchTrack(id)
  \/ \E f \in Frames : NativeSetSoundscape(f)
  \/ \E f \in Frames : NativeSetSoundscapeCheck(f)
  \/ \E f \in Frames : NativeSetSoundscapeStop(f)
  \/ \E f \in Frames : NativeSetSoundscapeStart(f)
  \/ \E f \in Frames : SwitchTrackFinish(f)

InterruptionStep ==
  \/ InterruptionBegan
  \/ \E resumed \in BOOLEAN : InterruptionEnded(resumed)
  \/ OnPlaybackStateChanged
  \/ ResumeConfirmed

WatchdogStep ==
  \/ startHealthCheck
  \/ stopHealthCheck
  \/ HealthCheckTick
  \/ \E f \in Frames : HealthCheckResume(f)

\* play(), stop() and the restart with the audio kept, from several callers.
NextCalls == NativeStep \/ PlayStopStep \/ IssueRestart

SpecCalls == Init /\ [][NextCalls]_vars

\* play(), stop() and setSoundscape() from several callers.
NextSwitch == NativeStep \/ PlayStopStep \/ SwitchTrackStep

SpecSwitch == Init /\ [][NextSwitch]_vars

\* The restart with the audio kept (the first one starts the audio), from
\* several callers, with interruptions.
NextRestart ==
  \/ IssueRestart
  \/ \E f \in Frames : NativeIsPlaying(f)
  \/ \E f \in Frames : NativePlay(f)
  \/ \E f \in Frames : PlayReconcile(f)
  \/ \E f \in Frames : PlayFinish(f)
  \/ \E f \in Frames : Return(f)
  \/ InterruptionStep

SpecRestart == Init /\ [][NextRestart]_vars

\* play() from several callers, with interruptions.
NextInterruption ==
  \/ IssuePlay
  \/ \E f \in Frames : NativeIsPlaying(f)
  \/ \E f \in Frames : NativePlay(f)
  \/ \E f \in Frames : PlayReconcile(f)
  \/ \E f \in Frames : PlayFinish(f)
  \/ \E f \in Frames : Return(f)
  \/ InterruptionStep

SpecInterruption == Init /\ [][NextInterruption]_vars

\* play() and stop() with interruptions and route changes.
NextEvents ==
  \/ NativeStep
  \/ PlayStopStep
  \/ InterruptionStep
  \/ \E stopped, resumed \in BOOLEAN : RouteChange(stopped, resumed)

SpecEvents == Init /\ [][NextEvents]_vars

\* play() and stop() with the health check.
NextWatchdog == NativeStep \/ PlayStopStep \/ WatchdogStep

SpecWatchdog == Init /\ [][NextWatchdog]_vars

VolumeStep ==
  \/ \E v \in VolumeInputs : setVolume(v)
  \/ \E v \in VolumeInputs : IssueSetVolume(v)
  \/ \E f \in Frames : NativeSetVolume(f)
  \/ \E f \in Frames : SetVolumeFinish(f)

\* The volume: the store's setVolume and the service's, with play() and
\* stop(), from several callers.
NextVolume == NativeStep \/ PlayStopStep \/ VolumeStep

SpecVolume == Init /\ [][NextVolume]_vars

\* The volume in every state of the session: play() and the service's
\* setVolume one call at a time, the store's setVolume and the platform's
\* interruptions at any moment.
NextVolumeStates ==
  \/ (calls = EmptyBag /\ IssuePlay)
  \/ (calls = EmptyBag /\ \E v \in VolumeInputs : IssueSetVolume(v))
  \/ \E v \in VolumeInputs : setVolume(v)
  \/ \E f \in Frames : NativeIsPlaying(f)
  \/ \E f \in Frames : NativePlay(f)
  \/ \E f \in Frames : PlayReconcile(f)
  \/ \E f \in Frames : PlayFinish(f)
  \/ \E f \in Frames : NativeSetVolume(f)
  \/ \E f \in Frames : SetVolumeFinish(f)
  \/ \E f \in Frames : Return(f)
  \/ InterruptionStep

SpecVolumeStates == Init /\ [][NextVolumeStates]_vars

\* The selection of a soundscape: the store's setSoundscape and the
\* service's, with play() and stop(), from several callers.
NextSelect ==
  \/ \E id \in RequestedIds : setSoundscape(id)
  \/ NativeStep
  \/ PlayStopStep
  \/ SwitchTrackStep

SpecSelect == Init /\ [][NextSelect]_vars

\* The round trip: one caller that calls play() first and setSoundscape()
\* before and after it, each call run to completion before the next.
NextRoundTrip ==
  \/ (calls = EmptyBag /\ engineStarts = 0 /\ IssuePlay)
  \/ (calls = EmptyBag /\ \E id \in SoundscapeIds : IssueSwitchTrack(id))
  \/ \E f \in Frames : NativeIsPlaying(f)
  \/ \E f \in Frames : NativePlay(f)
  \/ \E f \in Frames : PlayReconcile(f)
  \/ \E f \in Frames : PlayFinish(f)
  \/ \E f \in Frames : NativeSetSoundscape(f)
  \/ \E f \in Frames : NativeSetSoundscapeCheck(f)
  \/ \E f \in Frames : NativeSetSoundscapeStop(f)
  \/ \E f \in Frames : NativeSetSoundscapeStart(f)
  \/ \E f \in Frames : SwitchTrackFinish(f)
  \/ \E f \in Frames : Return(f)

SpecRoundTrip == Init /\ [][NextRoundTrip]_vars

\* play(), setSoundscape() and the health check's tick, one call at a time,
\* with the platform's interruptions at any moment: everything that could
\* start the Engine.
NextStarts ==
  \/ (calls = EmptyBag /\ IssuePlay)
  \/ (calls = EmptyBag /\ \E id \in RequestedIds : IssueSwitchTrack(id))
  \/ (calls = EmptyBag /\ HealthCheckTick)
  \/ startHealthCheck
  \/ \E f \in Frames : HealthCheckResume(f)
  \/ \E f \in Frames : NativeIsPlaying(f)
  \/ \E f \in Frames : NativePlay(f)
  \/ \E f \in Frames : PlayReconcile(f)
  \/ \E f \in Frames : PlayFinish(f)
  \/ \E f \in Frames : NativeSetSoundscape(f)
  \/ \E f \in Frames : NativeSetSoundscapeCheck(f)
  \/ \E f \in Frames : NativeSetSoundscapeStop(f)
  \/ \E f \in Frames : NativeSetSoundscapeStart(f)
  \/ \E f \in Frames : SwitchTrackFinish(f)
  \/ \E f \in Frames : Return(f)
  \/ InterruptionStep

SpecStarts == Init /\ [][NextStarts]_vars

\* The platform's events after one play(): interruptions and route changes,
\* each delivered any number of times, and the listener.
NextPlatform ==
  \/ (calls = EmptyBag /\ engineStarts = 0 /\ IssuePlay)
  \/ \E f \in Frames : NativeIsPlaying(f)
  \/ \E f \in Frames : NativePlay(f)
  \/ \E f \in Frames : PlayReconcile(f)
  \/ \E f \in Frames : PlayFinish(f)
  \/ \E f \in Frames : Return(f)
  \/ InterruptionStep
  \/ \E stopped, resumed \in BOOLEAN : RouteChange(stopped, resumed)

SpecPlatform == Init /\ [][NextPlatform]_vars

\* The start of the signer with a stored selection: the store's
\* setSoundscape with the registry's ids, then useSigner.start's
\* setSoundscape and play(), one call at a time.
NextStartup ==
  \/ \E id \in SoundscapeIds : setSoundscape(id)
  \/ (calls = EmptyBag /\ StartSetSoundscape)
  \/ (calls = EmptyBag /\ IssuePlay)
  \/ \E f \in Frames : NativeIsPlaying(f)
  \/ \E f \in Frames : NativePlay(f)
  \/ \E f \in Frames : PlayReconcile(f)
  \/ \E f \in Frames : PlayFinish(f)
  \/ \E f \in Frames : NativeSetSoundscape(f)
  \/ \E f \in Frames : NativeSetSoundscapeCheck(f)
  \/ \E f \in Frames : NativeSetSoundscapeStop(f)
  \/ \E f \in Frames : NativeSetSoundscapeStart(f)
  \/ \E f \in Frames : SwitchTrackFinish(f)
  \/ \E f \in Frames : Return(f)

SpecStartup == Init /\ [][NextStartup]_vars

\* The players: play() from several callers, stop() and setSoundscape()
\* with the stored soundscape issued when no call is in flight, the
\* platform's interruptions and route changes at any moment, and the
\* listener between the calls.
NextHandles ==
  \/ IssuePlay
  \/ (calls = EmptyBag /\ IssueStop)
  \/ (calls = EmptyBag /\ StartSetSoundscape)
  \/ NativeStep
  \/ \E f \in Frames : PlayReconcile(f)
  \/ \E f \in Frames : PlayFinish(f)
  \/ \E f \in Frames : StopFinish(f)
  \/ \E f \in Frames : NativeSetSoundscape(f)
  \/ \E f \in Frames : NativeSetSoundscapeCheck(f)
  \/ \E f \in Frames : NativeSetSoundscapeStop(f)
  \/ \E f \in Frames : NativeSetSoundscapeStart(f)
  \/ \E f \in Frames : SwitchTrackFinish(f)
  \/ \E f \in Frames : Return(f)
  \/ InterruptionBegan
  \/ \E resumed \in BOOLEAN : InterruptionEnded(resumed)
  \/ (calls = EmptyBag /\ OnPlaybackStateChanged)
  \/ (calls = EmptyBag /\ ResumeConfirmed)
  \/ \E stopped, resumed \in BOOLEAN : RouteChange(stopped, resumed)

SpecHandles == Init /\ [][NextHandles]_vars

\* A stop() issued after a play(), while that play() is in flight or when it
\* has completed; the caller takes both results when both calls are done.
NextLaterStop ==
  \/ (calls = EmptyBag /\ IssuePlay)
  \/ ((\E f \in Frames : f.op = "play") /\ BagCardinality(calls) = 1 /\ IssueStop)
  \/ NativeStep
  \/ \E f \in Frames : PlayReconcile(f)
  \/ \E f \in Frames : PlayFinish(f)
  \/ \E f \in Frames : StopFinish(f)
  \/ \E f \in Frames : ((\A g \in Frames : g.pc = "done") /\ Return(f))

SpecLaterStop == Init /\ [][NextLaterStop]_vars

\* The stored volume and the player's: the store's setVolume at any moment,
\* and the three calls of useSigner.start, setSoundscape, play() and
\* setVolume with the stored values, one call at a time.
NextPreference ==
  \/ \E v \in VolumeInputs : setVolume(v)
  \/ (calls = EmptyBag /\ StartSetSoundscape)
  \/ (calls = EmptyBag /\ IssuePlay)
  \/ (calls = EmptyBag /\ StartSetVolume)
  \/ \E f \in Frames : NativeIsPlaying(f)
  \/ \E f \in Frames : NativePlay(f)
  \/ \E f \in Frames : PlayReconcile(f)
  \/ \E f \in Frames : PlayFinish(f)
  \/ \E f \in Frames : NativeSetSoundscape(f)
  \/ \E f \in Frames : NativeSetSoundscapeCheck(f)
  \/ \E f \in Frames : NativeSetSoundscapeStop(f)
  \/ \E f \in Frames : NativeSetSoundscapeStart(f)
  \/ \E f \in Frames : SwitchTrackFinish(f)
  \/ \E f \in Frames : NativeSetVolume(f)
  \/ \E f \in Frames : SetVolumeFinish(f)
  \/ \E f \in Frames : Return(f)

SpecPreference == Init /\ [][NextPreference]_vars

\* ------------------------------------------------------------ properties
\* The calls of a bag that satisfy a condition, counted with multiplicity.
CountIn(b, S) == BagCardinality([f \in S \cap DOMAIN b |-> b[f]])

\* The call f takes a step (as an action: f leaves the bag or moves on).
Stepped(f) == CopiesIn(f, calls') < CopiesIn(f, calls)

\* Engine start and stop calls issued by JS and not yet run by the native side.
StartStopPending(b) == CountIn(b, {f \in BagToSet(b) : f.pc \in {"play", "stop"}})

\* play(), stop() and switchTrack() calls that have had an Engine call run
\* and have not completed.
MidOperation ==
  {f \in Frames : /\ f.op \in {"play", "stop", "switchTrack"}
                  /\ f.pc \notin {"isPlaying", "stop", "setSoundscape", "done"}}

\* C1 (as claimed): for every interleaving of concurrent play() and stop()
\* calls, two Engine start calls are never in flight at the same time.
C1_NoOverlappingStart ==
  Count({f \in Frames : f.op = "play" /\ f.pc = "play"}) <= 1

\* C2 (as claimed): play(), stop() and switchTrack() are serialized: at most
\* one of them is between its first Engine call and its completion.
C2_Serialized == Count(MidOperation) <= 1

C4_PlayNoOpWhenConfirmed ==
  [][\A f \in Frames :
       (/\ f.op = "play" /\ f.pc = "isPlayingReturned" /\ f.nativeIsPlaying
        /\ sessionState = "Playing" /\ Stepped(f))
         => /\ StartStopPending(calls') <= StartStopPending(calls)
            /\ \E g \in BagToSet(calls') : g.op = "play" /\ g.pc = "done" /\ g.res = "noop"
            /\ UNCHANGED <<sessionState, playing, audioPlayer, currentSoundscape, engineStarts>>]_vars

\* C4 witness: a play() returned as a no-op from cached Playing, confirmed.
C4_Witness ==
  \E f \in Frames :
    f.op = "play" /\ f.pc = "done" /\ f.res = "noop" /\ f.st0 = "Playing" /\ f.nativeIsPlaying

\* C5 (as claimed): when an explicit stop() completes, the cached state is
\* Stopped and the Engine has no playing handle.
C5_StopLeavesStopped ==
  [][\A f \in Frames :
       (f.op = "stop" /\ f.pc = "stopReturned" /\ Stepped(f))
         => (sessionState' = "Stopped" /\ ~playing' /\ ~audioPlayer'.sounding)]_vars

\* C6: stop() is idempotent: it never fails, the Engine stop with no live
\* handle changes nothing in the Engine, and a stop() that completes from
\* Stopped leaves Stopped.
C6_StopIdempotent ==
  /\ [](\A f \in Frames : f.op = "stop" => f.res \in {"none", "ok"})
  /\ [][\A f \in Frames :
          /\ (f.op = "stop" /\ f.pc = "stop" /\ Stepped(f) /\ ~audioPlayer.live /\ ~playing)
               => UNCHANGED <<playing, audioPlayer, currentSoundscape, engineStarts>>
          /\ (f.op = "stop" /\ f.pc = "stopReturned" /\ Stepped(f) /\ sessionState = "Stopped")
               => sessionState' = "Stopped"]_vars

\* C6 witness: a stop() issued in Stopped has completed with no live handle.
C6_Witness ==
  /\ sessionState = "Stopped"
  /\ ~audioPlayer.live
  /\ \E f \in Frames : f.op = "stop" /\ f.pc = "done" /\ f.st0 = "Stopped" /\ f.res = "ok"

ControlInFlight ==
  {f \in Frames : f.op \in {"play", "stop", "switchTrack"} /\ f.pc # "done"}

\* C8 (as claimed): the health check reports a divergence once: every
\* invocation of onHealthCheckFailed moves the state from Playing to Failed,
\* and none happens while the state is not Playing.
C8_OneEventPerDivergence ==
  [][healthFailures' # healthFailures
       => (sessionState = "Playing" /\ sessionState' = "Failed")]_vars

\* C9 (as claimed): a tick that fires while play(), stop() or switchTrack()
\* is in flight is deferred: it neither reads the cached state nor queries
\* the Engine before that call has completed.
C9_TickDeferred ==
  [][\A g \in BagToSet(calls') :
       (g.op = "tick" /\ CopiesIn(g, calls') > CopiesIn(g, calls))
         => Count(ControlInFlight) = 0]_vars

\* The listener takes an event / a native handler sends one (as actions).
EventHandled == nativeEvents # <<>> /\ nativeEvents' = Tail(nativeEvents)

EventSent == Len(nativeEvents') > Len(nativeEvents)

\* C10: from Playing, "interrupted" leads to Interrupted, "resumed" leads on
\* to Resuming and Resuming only to Playing; neither the native handlers nor
\* the listener start the Engine or replace the player: the resume reuses
\* the handle.
C10_InterruptionResumePath ==
  [][/\ (EventHandled /\ Head(nativeEvents) = "interrupted" /\ sessionState = "Playing")
          => sessionState' = "Interrupted"
     /\ (EventHandled /\ Head(nativeEvents) = "resumed" /\ sessionState = "Interrupted")
          => sessionState' = "Resuming"
     /\ (sessionState = "Resuming" /\ sessionState' # "Resuming")
          => sessionState' = "Playing"
     /\ (EventSent \/ EventHandled)
          => /\ engineStarts' = engineStarts
             /\ audioPlayer'.live = audioPlayer.live
             /\ audioPlayer'.track = audioPlayer.track
             /\ calls' = calls]_vars

\* C10 witness: Resuming has been reached (from Playing over Interrupted)
\* with the one Engine start that began the playback, the player sounding.
C10_Witness ==
  /\ sessionState = "Resuming"
  /\ engineStarts = 1
  /\ playing /\ audioPlayer.live /\ audioPlayer.sounding
  /\ calls = EmptyBag

\* C11: an interruption that ends without the resume succeeding clears the
\* Engine's flag and is reported by the event "resumeFailed" alone: no call
\* in flight is touched and no Engine start is made; handled in Interrupted,
\* the event leads to Failed, again with no call and no Engine step.
C11_ResumeFailedToFailed ==
  [][/\ (playing /\ ~playing')
          => /\ EventSent
             /\ nativeEvents'[Len(nativeEvents')] = "resumeFailed"
             /\ calls' = calls
             /\ UNCHANGED <<engineStarts, audioPlayer, currentSoundscape, sessionState>>
     /\ (EventHandled /\ Head(nativeEvents) = "resumeFailed" /\ sessionState = "Interrupted")
          => /\ sessionState' = "Failed"
             /\ calls' = calls
             /\ UNCHANGED <<playing, audioPlayer, currentSoundscape, engineStarts>>]_vars

\* C11 witness: Failed has been reached from Interrupted by a failed resume:
\* one Engine start, the flag cleared, nothing in flight, every event handled.
C11_Witness ==
  /\ sessionState = "Failed"
  /\ ~playing
  /\ engineStarts = 1
  /\ calls = EmptyBag
  /\ nativeEvents = <<>>

\* The errors startPlayback() throws.
StartErrors == {"ConfigError", "AssetNotFound", "PlaybackStartFailed"}

\* C12 (as claimed): when a play() or switchTrack() whose Engine start failed
\* returns its error and no control call is in flight, the cached state is
\* Failed or Stopped.
C12_FailureLeavesFailedOrStopped ==
  [][\A f \in Frames :
       (/\ f.op \in {"play", "switchTrack"} /\ f.pc = "done" /\ f.res \in StartErrors
        /\ f.nativeIsPlaying = FALSE /\ (f.op = "switchTrack" => f.arg # "")
        /\ Stepped(f) /\ Count(ControlInFlight) = 0)
         => sessionState' \in {"Failed", "Stopped"}]_vars

\* The calls a caller makes that may start the Engine, and where they do.
StartingCall(f) ==
  /\ f.op \in {"play", "restart", "switchTrack"}
  /\ f.pc \in {"play", "ssStart"}

\* C13: nothing is retried: every Engine start is the step of a play() or
\* setSoundscape() call a caller issued, a call that has failed starts
\* nothing more, and neither a failed resume nor a failed health check
\* starts the Engine or issues a call that would.
C13_NoAutomaticRetry ==
  /\ [](\A f \in Frames :
          f.res \in StartErrors => f.pc \in {"playReturned", "setSoundscapeReturned", "done"})
  /\ [][/\ engineStarts' # engineStarts
             => \E f \in Frames : StartingCall(f) /\ Stepped(f)
        /\ (healthFailures' # healthFailures \/ EventSent \/ EventHandled)
             => /\ engineStarts' = engineStarts
                /\ CountIn(calls', {f \in BagToSet(calls') : f.op # "tick"})
                     = CountIn(calls, {f \in Frames : f.op # "tick"})
                /\ StartStopPending(calls') = StartStopPending(calls)]_vars

\* C13 witness: a start has failed and a health check has failed, the
\* Engine's flag is cleared, and the Engine has been started as often as the
\* bound allows.
C13_Witness ==
  /\ healthFailures > 0
  /\ engineStarts = MaxEngineStarts
  /\ ~playing
  /\ \E f \in Frames : f.pc = "done" /\ f.res \in StartErrors

\* A call is issued in this step (as an action).
Issued(g) == CopiesIn(g, calls') > CopiesIn(g, calls)

\* C14 (as claimed): the selection of an id that is not in the registry is
\* answered AssetNotFound, changes neither the cached state nor the Engine,
\* issues no Engine call, and the persisted soundscapeId is never replaced
\* by such an id.
C14_UnknownIdRejected ==
  [][/\ \A g \in BagToSet(calls') :
          (g.op = "switchTrack" /\ g.arg = "" /\ Issued(g))
            => /\ g.pc = "done" /\ g.res = "AssetNotFound"
               /\ UNCHANGED <<sessionState, playing, audioPlayer, currentSoundscape, engineStarts>>
     /\ soundscapeId' # soundscapeId => soundscapeId' \in SoundscapeIds]_vars

\* setSoundscape() calls with a registry id that were issued in Stopped.
SwitchFromStopped ==
  {f \in Frames : f.op = "switchTrack" /\ f.arg # "" /\ f.st0 = "Stopped"}

\* C15 (as claimed): a setSoundscape(id) with a registry id issued while the
\* cached state is Stopped never stops or starts the Engine and never fails,
\* it leaves the state Stopped, it makes the id's file the one to play, and
\* every start of the Engine after it plays the file selected last.
C15_SwitchWhileStoppedOnlySelects ==
  /\ [](\A f \in SwitchFromStopped :
          f.pc \notin {"ssStop", "ssStart"} /\ f.res \in {"none", "ok"})
  /\ [][/\ \A f \in SwitchFromStopped :
             Stepped(f)
               => /\ UNCHANGED <<playing, audioPlayer, engineStarts>>
                  /\ sessionState = "Stopped" => sessionState' = "Stopped"
                  /\ f.pc = "setSoundscape" => currentSoundscape' = f.arg
        /\ (engineStarts' # engineStarts /\ audioPlayer' # audioPlayer)
             => audioPlayer'.track = currentSoundscape]_vars

\* The call f moves on to the position pc in this step (as an action).
StepsTo(f, pc) ==
  /\ Stepped(f)
  /\ \E g \in BagToSet(calls') : g.op = f.op /\ g.arg = f.arg /\ g.pc = pc /\ Issued(g)

ExpectedVolume(v) == IF v < 0 THEN 0 ELSE IF v > 10 THEN 10 ELSE v

\* C17: the stored volume and the volume of a live player are always in the
\* range; every value the store takes is the expected one of a request, and
\* the native setVolume leaves a live player with the expected volume of
\* its request.
C17_VolumeClamped ==
  /\ [](/\ volume \in 0..10
        /\ audioPlayer.live => audioPlayer.volume \in 0..10)
  /\ [][/\ volume' # volume => volume' \in {ExpectedVolume(v) : v \in VolumeInputs}
        /\ \A f \in Frames :
             (f.op = "setVolume" /\ f.pc = "setVolume" /\ Stepped(f) /\ audioPlayer.live)
               => audioPlayer'.volume = ExpectedVolume(f.vol)]_vars

\* C17 witness: a request above the range has been applied to the live
\* player, which has volume 1, and the stored volume is 0, below which no
\* request is stored.
C17_Witness ==
  /\ volume = 0
  /\ audioPlayer.live /\ audioPlayer.volume = 10
  /\ \E f \in Frames : f.op = "setVolume" /\ f.pc = "done" /\ f.vol > 10

C19_SetVolumeInEveryState ==
  /\ [](\A v \in VolumeInputs : ENABLED (setVolume(v) /\ volume' = ExpectedVolume(v)))
  /\ [][\A f \in Frames :
         (f.op = "setVolume" /\ f.pc = "setVolume" /\ Stepped(f) /\ ~audioPlayer.live)
           => /\ [f EXCEPT !.pc = "setVolumeReturned", !.res = "ok"] \in BagToSet(calls')
              /\ UNCHANGED <<engine, sessionState>>]_vars

\* C19 witness: a setVolume call issued in Stopped has completed without an
\* error, there is no player, the state is Stopped, and the stored volume is
\* the expected one of the call, not the default.
C19_Witness ==
  \E f \in Frames :
    /\ f.op = "setVolume" /\ f.pc = "done" /\ f.res = "ok" /\ f.st0 = "Stopped"
    /\ ~audioPlayer.live /\ ~playing
    /\ sessionState = "Stopped"
    /\ volume = ExpectedVolume(f.vol)
    /\ volume # DEFAULT_VOLUME

\* C20 as claimed: the answer of isPlaying() is true exactly when there is
\* a live player that is producing sound.
C20_IsPlayingGroundTruth ==
  [][\A f \in Frames :
       (f.pc = "isPlaying" /\ Stepped(f))
         => [f EXCEPT !.pc = "isPlayingReturned",
                      !.nativeIsPlaying = audioPlayer.live /\ audioPlayer.sounding]
              \in BagToSet(calls')]_vars

\* C21 as claimed: every step that changes the cached state comes with a
\* status event: the native event the listener is handling, or the health
\* check's failure callback.
C21_StatusEventOnEveryTransition ==
  [][sessionState' # sessionState =>
       \/ nativeEvents # <<>> /\ nativeEvents' = Tail(nativeEvents)
       \/ healthFailures' = healthFailures + 1]_vars

\* C22 as claimed: when the platform, not a call, stops or resumes the
\* player, as a route change does, an event to the Controller is sent in the
\* same handler.
C22_RouteChangeReported ==
  [][(calls' = calls /\ audioPlayer'.sounding # audioPlayer.sounding)
       => Len(nativeEvents') = Len(nativeEvents) + 1]_vars

\* The state the claims expect after the Controller has been given an event.
AfterEvent(reason, s) ==
  CASE reason = "interrupted" /\ s = "Playing" -> "Interrupted"
    [] reason = "resumed" /\ s = "Interrupted" -> "Resuming"
    [] reason = "resumeFailed" /\ s = "Interrupted" -> "Failed"
    [] OTHER -> s

\* C23: the listener leaves the state that the same event, given again,
\* leaves as it is, and touches nothing of the Engine; a platform handler
\* starts and stops nothing, does not touch the cached state, and clears the
\* flag only with a failed resume, after which a further interruption-ended
\* does nothing.
C23_PlatformEventsIdempotent ==
  [][/\ (nativeEvents # <<>> /\ nativeEvents' = Tail(nativeEvents)) =>
          /\ sessionState' = AfterEvent(Head(nativeEvents), sessionState)
          /\ AfterEvent(Head(nativeEvents), sessionState') = sessionState'
          /\ UNCHANGED engine
     /\ (calls' = calls /\ (audioPlayer' # audioPlayer \/ playing' # playing
                            \/ Len(nativeEvents') > Len(nativeEvents))) =>
          /\ UNCHANGED <<sessionState, engineStarts, currentSoundscape>>
          /\ audioPlayer' = [audioPlayer EXCEPT !.sounding = audioPlayer'.sounding]
          /\ playing' # playing =>
               (playing /\ nativeEvents' = Append(nativeEvents, "resumeFailed"))
     /\ ~playing => ~ENABLED (\E resumed \in BOOLEAN : InterruptionEnded(resumed))]_vars

\* C23 witness: the interruption's beginning has been delivered twice: the
\* first event has taken the state to Interrupted and the second one is the
\* next the listener takes.
C23_Witness ==
  /\ sessionState = "Interrupted"
  /\ nativeEvents # <<>> /\ Head(nativeEvents) = "interrupted"
  /\ engineStarts = 1 /\ playing /\ ~audioPlayer.sounding

\* C24 as claimed: whenever startPlayback runs, the file it is to play is
\* one of an available soundscape, and the default's if the stored
\* selection is not available.
C24_NeverStartsUnavailable ==
  [][engineStarts' # engineStarts =>
       /\ currentSoundscape' \in Bundle
       /\ ~isSoundscapeAvailable(soundscapeId)
            => currentSoundscape' = getSoundscapeFilename(DEFAULT_SOUNDSCAPE_ID)]_vars

\* The players that are sounding: the one the Engine holds and one that a
\* start replaced and left sounding.
SoundingHandles ==
  (IF audioPlayer.live /\ audioPlayer.sounding THEN 1 ELSE 0)
    + (IF audioPlayer.previous = "sounding" THEN 1 ELSE 0)

C26_EventsAfterCallsInFlight ==
  [][EventHandled =>
       /\ Count(ControlInFlight) = 0
       /\ \A f \in Frames : f.op = "restart" => f.pc = "done"]_vars

\* C27 (as claimed): a stop() issued after a play(), the play() in flight or
\* completed: once both calls have completed, the cached state is Stopped and
\* the Engine is not playing.
C27_LaterStopWins ==
  (\E f, g \in Frames :
     f.op = "play" /\ f.pc = "done" /\ g.op = "stop" /\ g.pc = "done")
    => (sessionState = "Stopped" /\ ~playing /\ ~audioPlayer.sounding)

\* A stop() has completed with the Engine silent, and no play(), restart or
\* switchTrack() has been issued and not yet returned.
StoppedForGood ==
  /\ sessionState = "Stopped"
  /\ ~playing
  /\ ~audioPlayer.sounding
  /\ \E f \in Frames : f.op = "stop" /\ f.pc = "done"
  /\ \A f \in Frames : f.op \notin {"play", "restart", "switchTrack"}

\* C28 (as claimed): once stop() has completed, the cached state stays
\* Stopped and the Engine stays silent until the next play(): no platform
\* event and no health-check tick changes the state, resumes the playback or
\* invokes onHealthCheckFailed.
C28_StoppedStaysStopped ==
  [][StoppedForGood =>
       /\ sessionState' = "Stopped"
       /\ ~playing'
       /\ ~audioPlayer'.sounding
       /\ healthFailures' = healthFailures]_vars

\* C29 (as claimed): whenever there is a live player and no call is in
\* flight, the player's volume is the stored volume; and a player created by
\* play() or by setSoundscape while playing has the stored volume.
C29_HandleVolumeIsPreference ==
  /\ []((audioPlayer.live /\ \A f \in Frames : f.pc = "done")
          => audioPlayer.volume = volume)
  /\ [][(engineStarts' = engineStarts + 1 /\ audioPlayer'.live)
          => audioPlayer'.volume = volume]_vars

\* The health-check timers that are running: the one whose handle is held
\* and those whose handle was overwritten.
ActiveTimers == (IF healthCheckInterval THEN 1 ELSE 0) + leakedTimers

\* C30 (as claimed): at most one health-check timer is active at any time,
\* and a stopHealthCheck leaves no timer running, so that no tick can fire
\* after it.
C30_OneHealthCheckTimer ==
  /\ [](ActiveTimers <= 1)
  /\ [][(healthCheckInterval /\ ~healthCheckInterval') => ActiveTimers' = 0]_vars

====
